---- MODULE Spec2Model ----
(***************************************************************************)
(* A model of the swim-meet qualifier analysis (src/src/main.rs).          *)
(*                                                                         *)
(* Strings are sequences of one-character strings, so that trim, replace,  *)
(* split and the integer / float parsers are computed as the code computes *)
(* them.  Times (f64 seconds in the code) are integers in hundredths of a  *)
(* second; every time the model reads has at most two fractional digits.   *)
(* A HashMap is a function on its key set; where the code iterates over a  *)
(* HashMap or HashSet the iteration order is a sequence chosen arbitrarily *)
(* when the map is built and then kept fixed.                              *)
(***************************************************************************)
EXTENDS Integers, Sequences, FiniteSets, TLC

VARIABLES
    pc,                \* position in main / in the specification's driver
    standards_exists,  \* Path::new(TIME_STANDARDS_FILE).exists()
    std_workbook,      \* the standards workbook on disk
    data_exists,       \* Path::new(DATA_FOLDER).exists()
    dir_entries,       \* the entries read_dir(DATA_FOLDER) yields, in order
    standards,         \* main: standards  (sex -> event -> age -> time)
    event_orders,      \* main: event_orders (sex -> sequence of events)
    iter_events,       \* iteration order of standards[sex]
    iter_ages,         \* iteration order of standards[sex][event]
    meet_files,        \* main: meet_files
    file_idx,          \* the parse loop's position in meet_files
    all_results,       \* main: all_results
    error_log,         \* the "  Error: ..." lines main prints, one per failed file
    qualifier_counts,  \* main: qualifier_counts
    unique_qualifiers, \* main: unique_qualifiers
    total_athletes,    \* main: total_athletes
    output,            \* the saved OUTPUT_FILE, None while it does not exist
    writes,            \* number of times workbook.save has written OUTPUT_FILE
    athlete_age,       \* find_best_age_match: argument athlete_age
    available_ages,    \* find_best_age_match: argument available_ages
    matched            \* find_best_age_match: the returned Option

vars == <<pc, standards_exists, std_workbook, data_exists, dir_entries, standards,
          event_orders, iter_events, iter_ages, meet_files, file_idx, all_results,
          error_log, qualifier_counts, unique_qualifiers, total_athletes, output,
          writes, athlete_age, available_ages, matched>>

None == [none |-> TRUE]
Some(v) == [some |-> v]
IsSome(o) == "some" \in DOMAIN o

-----------------------------------------------------------------------------
(* Strings *)

IsWhitespace(c) == c \in {" ", "\t"}

RECURSIVE TrimStart(_)
TrimStart(s) ==
    IF s = <<>> THEN <<>>
    ELSE IF IsWhitespace(Head(s)) THEN TrimStart(Tail(s)) ELSE s

RECURSIVE TrimEnd(_)
TrimEnd(s) ==
    IF s = <<>> THEN <<>>
    ELSE IF IsWhitespace(s[Len(s)]) THEN TrimEnd(SubSeq(s, 1, Len(s) - 1)) ELSE s

Trim(s) == TrimEnd(TrimStart(s))

StartsWith(s, p) == Len(p) <= Len(s) /\ SubSeq(s, 1, Len(p)) = p

EndsWith(s, p) == Len(p) <= Len(s) /\ SubSeq(s, Len(s) - Len(p) + 1, Len(s)) = p

\* str::replace: every non-overlapping match of pat, scanning left to right.
RECURSIVE Replace(_, _, _)
Replace(s, pat, rep) ==
    IF s = <<>> THEN <<>>
    ELSE IF StartsWith(s, pat)
         THEN rep \o Replace(SubSeq(s, Len(pat) + 1, Len(s)), pat, rep)
         ELSE <<Head(s)>> \o Replace(Tail(s), pat, rep)

\* str::split(char): the pieces between the separators, empty pieces kept.
RECURSIVE SplitAcc(_, _, _)
SplitAcc(s, sep, cur) ==
    IF s = <<>> THEN <<cur>>
    ELSE IF Head(s) = sep
         THEN <<cur>> \o SplitAcc(Tail(s), sep, <<>>)
         ELSE SplitAcc(Tail(s), sep, Append(cur, Head(s)))

Split(s, sep) == SplitAcc(s, sep, <<>>)

Contains(s, c) == \E i \in 1..Len(s) : s[i] = c

Digits == {"0", "1", "2", "3", "4", "5", "6", "7", "8", "9"}

DigitVal(c) ==
    CASE c = "0" -> 0 [] c = "1" -> 1 [] c = "2" -> 2 [] c = "3" -> 3 [] c = "4" -> 4
      [] c = "5" -> 5 [] c = "6" -> 6 [] c = "7" -> 7 [] c = "8" -> 8 [] c = "9" -> 9

AllDigits(s) == \A i \in 1..Len(s) : s[i] \in Digits

RECURSIVE DigitsVal(_, _)
DigitsVal(s, acc) ==
    IF s = <<>> THEN acc ELSE DigitsVal(Tail(s), 10 * acc + DigitVal(Head(s)))

I32Max == 2147483647
I32Min == (0 - I32Max) - 1

\* str::parse::<i32>: an optional sign, then one or more digits, within i32.
ParseI32(s) ==
    LET signed == s # <<>> /\ Head(s) \in {"+", "-"}
        body   == IF signed THEN Tail(s) ELSE s
        mag    == DigitsVal(body, 0)
        val    == IF signed /\ Head(s) = "-" THEN 0 - mag ELSE mag
    IN  IF body = <<>> \/ ~AllDigits(body) THEN None
        ELSE IF val < I32Min \/ val > I32Max THEN None
        ELSE Some(val)

\* str::parse::<f64>, in hundredths: an optional sign, digits with at most one
\* '.', at least one digit.  (Exponents, "inf" and "NaN" are accepted by the
\* code's parser and are not among the texts the model reads.)
ParseF64(s) ==
    LET signed == s # <<>> /\ Head(s) \in {"+", "-"}
        body   == IF signed THEN Tail(s) ELSE s
        parts  == Split(body, ".")
        ip     == parts[1]
        fp     == IF Len(parts) = 2 THEN parts[2] ELSE <<>>
        fp2    == SubSeq(fp \o <<"0", "0">>, 1, 2)
        mag    == 100 * DigitsVal(ip, 0) + DigitsVal(fp2, 0)
    IN  IF Len(parts) > 2 \/ ~AllDigits(ip) \/ ~AllDigits(fp) \/ (ip = <<>> /\ fp = <<>>)
        THEN None
        ELSE Some(IF signed /\ Head(s) = "-" THEN 0 - mag ELSE mag)

ToLowerChar(c) == CASE c = "N" -> "n" [] c = "A" -> "a" [] OTHER -> c

EqIgnoreAsciiCase(s, t) ==
    Len(s) = Len(t) /\ \A i \in 1..Len(s) : ToLowerChar(s[i]) = ToLowerChar(t[i])

-----------------------------------------------------------------------------
(* Name normalizer *)

normalize_event_name(event) ==
    IF Trim(event) = <<>> THEN None
    ELSE
      LET n0 == Trim(event)
          n1 == Replace(Replace(n0, <<"m">>, <<>>), <<" ">>, <<>>)
          n2 == Replace(n1, <<"F", "r", "e", "e">>, <<"F", "r">>)
          n3 == Replace(n2, <<"F", "l", "y">>, <<"B", "u">>)
          n4 == Replace(n3, <<"B", "a", "c", "k">>, <<"B", "k">>)
          n5 == Replace(n4, <<"B", "r", "e", "a", "s", "t">>, <<"B", "r">>)
          n6 == Replace(n5, <<"M", ".", "E", ".">>, <<"M", "e">>)
          n7 == Replace(n6, <<"M", ".", "E">>, <<"M", "e">>)
          n8 == Replace(n7, <<"I", ".", "M", ".">>, <<"M", "e">>)
          n9 == Replace(n8, <<"I", ".", "M">>, <<"M", "e">>)
      IN  Some(Replace(n9, <<"F", "L">>, <<"B", "u">>))

normalize_age(age) == Replace(Trim(age), <<"&", "U">>, <<>>)

-----------------------------------------------------------------------------
(* Age resolver *)

\* filter_map over available_ages: the labels that parse, as (num, label) pairs.
RECURSIVE AgeNums(_)
AgeNums(ages) ==
    IF ages = <<>> THEN <<>>
    ELSE LET p == ParseI32(Head(ages))
         IN  (IF IsSome(p) THEN <<[num |-> p.some, label |-> Head(ages)]>> ELSE <<>>)
             \o AgeNums(Tail(ages))

\* One insertion of a stable sort by key: x goes after every element whose
\* key is not greater.
RECURSIVE InsertByNum(_, _)
InsertByNum(sorted, x) ==
    IF sorted = <<>> THEN <<x>>
    ELSE IF Head(sorted).num <= x.num
         THEN <<Head(sorted)>> \o InsertByNum(Tail(sorted), x)
         ELSE <<x>> \o sorted

\* Vec::sort_by_key (stable).
RECURSIVE SortByNum(_)
SortByNum(s) ==
    IF s = <<>> THEN <<>>
    ELSE InsertByNum(SortByNum(SubSeq(s, 1, Len(s) - 1)), s[Len(s)])

Abs(n) == IF n < 0 THEN 0 - n ELSE n

\* Iterator::find: the first element satisfying the predicate.
RECURSIVE FindNum(_, _)
FindNum(s, n) ==
    IF s = <<>> THEN None
    ELSE IF Head(s).num = n THEN Some(Head(s).label) ELSE FindNum(Tail(s), n)

MinByKeyLast(best, x, n) == IF Abs(n - x.num) <= Abs(n - best.num) THEN x ELSE best

\* Iterator::min_by_key keeps the first of several equally minimum elements.
MinByKeyPick(best, x, n) == IF Abs(n - x.num) < Abs(n - best.num) THEN x ELSE best

RECURSIVE MinByKey(_, _, _)
MinByKey(s, best, n) ==
    IF s = <<>> THEN best ELSE MinByKey(Tail(s), MinByKeyPick(best, Head(s), n), n)

find_best_age_match(age, ages) ==
    LET a == ParseI32(age)
    IN  IF ~IsSome(a) THEN None
        ELSE
          LET age_nums == SortByNum(AgeNums(ages))
              exact    == FindNum(age_nums, a.some)
          IN  IF age_nums = <<>> THEN None
              ELSE IF IsSome(exact) THEN exact
              ELSE IF a.some < age_nums[1].num THEN Some(age_nums[1].label)
              ELSE IF a.some > age_nums[Len(age_nums)].num
                   THEN Some(age_nums[Len(age_nums)].label)
              ELSE Some(MinByKey(Tail(age_nums), age_nums[1], a.some).label)

-----------------------------------------------------------------------------
(* Cells (calamine::Data) and cell value coercion *)

FloatCell(f)    == [kind |-> "Float", f |-> f]        \* f in hundredths
IntCell(i)      == [kind |-> "Int", i |-> i]
DateTimeCell(n, d) == [kind |-> "DateTime", num |-> n, den |-> d] \* as_f64() = n / d days
StringCell(s)   == [kind |-> "String", s |-> s]
EmptyCell       == [kind |-> "Empty"]

SecondsPerDay == 86400

time_to_seconds(value) ==
    CASE value.kind = "Float"    -> Some(value.f)
      [] value.kind = "Int"      -> Some(100 * value.i)
      [] value.kind = "DateTime" -> Some((100 * value.num * SecondsPerDay) \div value.den)
      [] value.kind = "String"   ->
            LET s     == Trim(value.s)
                parts == Split(s, ":")
            IN  IF s = <<>> \/ EqIgnoreAsciiCase(s, <<"n", "a", "n">>) THEN None
                ELSE IF Contains(s, ":") /\ Len(parts) = 2
                THEN LET minutes == ParseF64(parts[1])
                         seconds == ParseF64(parts[2])
                     IN  IF ~IsSome(minutes) \/ ~IsSome(seconds) THEN None
                         ELSE Some(minutes.some * 60 + seconds.some)
                ELSE ParseF64(s)
      [] OTHER -> None

DigitChar(d) ==
    CASE d = 0 -> "0" [] d = 1 -> "1" [] d = 2 -> "2" [] d = 3 -> "3" [] d = 4 -> "4"
      [] d = 5 -> "5" [] d = 6 -> "6" [] d = 7 -> "7" [] d = 8 -> "8" [] d = 9 -> "9"

\* i64::to_string of a non-negative integer.
RECURSIVE NatToString(_)
NatToString(n) ==
    IF n < 10 THEN <<DigitChar(n)>>
    ELSE Append(NatToString(n \div 10), DigitChar(n % 10))

IntToString(i) == IF i < 0 THEN <<"-">> \o NatToString(0 - i) ELSE NatToString(i)

\* f64::to_string of a non-negative value given in hundredths: the shortest
\* decimal, no fractional part for a whole number.
FloatToString(f) ==
    LET ip == NatToString(f \div 100)
        c  == f % 100
    IN  IF c = 0 THEN ip
        ELSE IF c % 10 = 0 THEN ip \o <<".", DigitChar(c \div 10)>>
        ELSE ip \o <<".", DigitChar(c \div 10), DigitChar(c % 10)>>

\* HashMap::insert: the value of an existing key is replaced.
Insert(m, k, v) == [x \in DOMAIN m \cup {k} |-> IF x = k THEN v ELSE m[x]]

EmptyMap == [x \in {} |-> 0]

-----------------------------------------------------------------------------
(* Standards Table builder *)

HeaderAgeStr(cell) ==
    CASE cell.kind = "String" -> Trim(cell.s)
      [] cell.kind = "Int"    -> IntToString(cell.i)
      [] cell.kind = "Float"  -> FloatToString(cell.f)
      [] OTHER                -> <<>>

\* One turn of the header loop: a cell whose text is empty adds no age group.
HeaderPush(age_groups, cell) ==
    IF HeaderAgeStr(cell) # <<>>
    THEN Append(age_groups, normalize_age(HeaderAgeStr(cell)))
    ELSE age_groups

\* for cell in header_row.iter().skip(1)
RECURSIVE HeaderAgeGroups(_, _)
HeaderAgeGroups(cells, age_groups) ==
    IF cells = <<>> THEN age_groups
    ELSE HeaderAgeGroups(Tail(cells), HeaderPush(age_groups, Head(cells)))

\* for (idx, age_group) in age_groups.iter().enumerate(), from idx (0-based)
RECURSIVE RowAgeStandards(_, _, _, _)
RowAgeStandards(row, age_groups, idx, age_standards) ==
    IF idx >= Len(age_groups) THEN age_standards
    ELSE
      LET col_idx == idx + 1
          t       == IF col_idx < Len(row) THEN time_to_seconds(row[col_idx + 1]) ELSE None
      IN  RowAgeStandards(row, age_groups, idx + 1,
              IF col_idx < Len(row) /\ IsSome(t)
              THEN Insert(age_standards, age_groups[idx + 1], t.some)
              ELSE age_standards)

\* The event of a data row, None where the loop continues without storing.
RowEvent(row) ==
    IF row = <<>> THEN None
    ELSE IF row[1].kind # "String" THEN None
    ELSE IF Trim(row[1].s) = <<>> THEN None
    ELSE normalize_event_name(Trim(row[1].s))

\* event_order.push(normalized_event.clone())
EventOrderPush(event_order, e) == Append(event_order, e)

\* for row in range.rows().skip(1)
RECURSIVE DataRows(_, _, _)
DataRows(rows, age_groups, acc) ==
    IF rows = <<>> THEN acc
    ELSE
      LET e == RowEvent(Head(rows))
      IN  DataRows(Tail(rows), age_groups,
              IF ~IsSome(e) THEN acc
              ELSE [standards   |-> Insert(acc.standards, e.some,
                                        RowAgeStandards(Head(rows), age_groups, 0, EmptyMap)),
                    event_order |-> EventOrderPush(acc.event_order, e.some)])

\* The body of the loop over the two tabs, for one tab: range is the Option
\* workbook.worksheet_range(gender) gives.
LoadSheet(range) ==
    LET empty == [standards |-> EmptyMap, event_order |-> <<>>]
    IN  IF ~IsSome(range) THEN empty
        ELSE LET rows       == range.some
                 age_groups == IF rows = <<>> THEN <<>>
                               ELSE HeaderAgeGroups(Tail(rows[1]), <<>>)
             IN  IF rows = <<>> THEN empty
                 ELSE DataRows(Tail(rows), age_groups, empty)

Men   == <<"M", "e", "n">>
Women == <<"W", "o", "m", "e", "n">>

load_time_standards(workbook) ==
    IF ~workbook.opens THEN [ok |-> FALSE]
    ELSE LET m == LoadSheet(workbook.Mens)
             w == LoadSheet(workbook.Womens)
         IN  [ok           |-> TRUE,
              standards    |-> Insert(Insert(EmptyMap, Men, m.standards), Women, w.standards),
              event_orders |-> Insert(Insert(EmptyMap, Men, m.event_order),
                                      Women, w.event_order)]

-----------------------------------------------------------------------------
(* Result extractor *)

TimeColumn == 9
NameColumn == 4

\* Column E (index 4) for names
RowName(row) ==
    IF Len(row) > NameColumn
    THEN LET c == row[NameColumn + 1]
         IN  IF c.kind = "String" /\ Trim(c.s) # <<>> THEN Trim(c.s) ELSE <<>>
    ELSE <<>>

\* for row in range.rows()
RECURSIVE SheetRows(_, _, _)
SheetRows(rows, proto, results) ==
    IF rows = <<>> THEN results
    ELSE
      LET row == Head(rows)
          t   == IF Len(row) <= TimeColumn THEN None ELSE time_to_seconds(row[TimeColumn + 1])
      IN  SheetRows(Tail(rows), proto,
              IF IsSome(t) /\ t.some > 0
              THEN Append(results, [course |-> proto.course, sex |-> proto.sex,
                                    age |-> proto.age, event |-> proto.event,
                                    time |-> t.some, name |-> RowName(row)])
              ELSE results)

\* for sheet_name in &sheet_names
RECURSIVE Sheets(_, _, _)
Sheets(sheets, proto, results) ==
    IF sheets = <<>> THEN results
    ELSE
      LET sheet == Head(sheets)
          event == normalize_event_name(sheet.name)
      IN  Sheets(Tail(sheets), proto,
              IF IsSome(event) /\ IsSome(sheet.range)
              THEN SheetRows(sheet.range.some, [proto EXCEPT !.event = event.some], results)
              ELSE results)

Xlsx == <<".", "x", "l", "s", "x">>
Xls  == <<".", "x", "l", "s">>

parse_meet_file(file) ==
    LET filename_clean == Replace(Replace(file.name, Xlsx, <<>>), Xls, <<>>)
        parts          == Split(filename_clean, "_")
        age_parts      == Split(parts[5], "-")
    IN  IF Len(parts) < 5 THEN [ok |-> FALSE, err |-> "Cannot parse filename"]
        ELSE IF Len(age_parts) # 2 THEN [ok |-> FALSE, err |-> "Invalid age range format"]
        ELSE IF ~file.opens THEN [ok |-> FALSE, err |-> "open_workbook"]
        ELSE [ok      |-> TRUE,
              results |-> Sheets(file.sheets,
                                 [course |-> parts[3], sex |-> parts[4],
                                  age |-> age_parts[2], event |-> <<>>], <<>>)]

-----------------------------------------------------------------------------
(* Qualifier aggregator *)

HasStandard(stds, sex, event) == sex \in DOMAIN stds /\ event \in DOMAIN stds[sex]

QualifiesStrict(time, qualifying_time) == time < qualifying_time

\* result.time <= qualifying_time
Qualifies(time, qualifying_time) == time <= qualifying_time

\* The body of count_qualifiers' loop for one result.
CountStep(counts, result, stds) ==
    IF HasStandard(stds, result.sex, result.event)
       /\ result.age \in DOMAIN stds[result.sex][result.event]
       /\ Qualifies(result.time, stds[result.sex][result.event][result.age])
    THEN LET key == <<result.sex, result.age, result.event>>
         IN  Insert(counts, key, (IF key \in DOMAIN counts THEN counts[key] ELSE 0) + 1)
    ELSE counts

RECURSIVE CountLoop(_, _, _)
CountLoop(results, stds, counts) ==
    IF results = <<>> THEN counts
    ELSE CountLoop(Tail(results), stds, CountStep(counts, Head(results), stds))

count_qualifiers(results, stds) == CountLoop(results, stds, EmptyMap)

SetReplace(sets, key, name) == Insert(sets, key, {name})

\* entry(key).or_insert_with(HashSet::new).insert(name)
SetInsert(sets, key, name) ==
    Insert(sets, key, (IF key \in DOMAIN sets THEN sets[key] ELSE {}) \cup {name})

UniqueStepLiteralAge(uniq, result, stds, ages_iter) ==
    IF result.name # <<>> /\ HasStandard(stds, result.sex, result.event)
       /\ result.age \in DOMAIN stds[result.sex][result.event]
       /\ Qualifies(result.time, stds[result.sex][result.event][result.age])
    THEN SetInsert(uniq, <<result.sex, result.age>>, result.name)
    ELSE uniq

\* The body of count_unique_qualifiers' loop for one result; ages_iter gives the
\* order in which event_standards.keys() yields a table's age labels.
UniqueStep(uniq, result, stds, ages_iter) ==
    IF result.name = <<>> \/ ~HasStandard(stds, result.sex, result.event) THEN uniq
    ELSE
      LET event_standards == stds[result.sex][result.event]
          m == find_best_age_match(result.age, ages_iter[result.sex][result.event])
      IN  IF IsSome(m) /\ m.some \in DOMAIN event_standards
             /\ Qualifies(result.time, event_standards[m.some])
          THEN SetInsert(uniq, <<result.sex, m.some>>, result.name)
          ELSE uniq

RECURSIVE UniqueLoop(_, _, _, _)
UniqueLoop(results, stds, ages_iter, uniq) ==
    IF results = <<>> THEN uniq
    ELSE UniqueLoop(Tail(results), stds, ages_iter,
                    UniqueStep(uniq, Head(results), stds, ages_iter))

count_unique_qualifiers(results, stds, ages_iter) ==
    UniqueLoop(results, stds, ages_iter, EmptyMap)

\* The body of main's total_athletes loop for one result; events_iter[sex] is
\* the order of gender_standards.iter(), whose first entry gives the ages.
TotalStep(total, result, stds, events_iter, ages_iter) ==
    IF result.name = <<>> \/ result.sex \notin DOMAIN stds THEN total
    ELSE IF events_iter[result.sex] = <<>> THEN total
    ELSE
      LET first == events_iter[result.sex][1]
          m     == find_best_age_match(result.age, ages_iter[result.sex][first])
      IN  IF IsSome(m) THEN SetInsert(total, <<result.sex, m.some>>, result.name)
          ELSE total

RECURSIVE TotalLoop(_, _, _, _, _)
TotalLoop(results, stds, events_iter, ages_iter, total) ==
    IF results = <<>> THEN total
    ELSE TotalLoop(Tail(results), stds, events_iter, ages_iter,
                   TotalStep(total, Head(results), stds, events_iter, ages_iter))

count_total_athletes(results, stds, events_iter, ages_iter) ==
    TotalLoop(results, stds, events_iter, ages_iter, EmptyMap)

-----------------------------------------------------------------------------
(* Helpers over sequences and sets *)

Range(s) == {s[i] : i \in 1..Len(s)}

\* The sequences over S without repetition, of length at most n.
InjSeqs(S, n) ==
    UNION {{s \in [1..k -> S] : \A i, j \in 1..k : i # j => s[i] # s[j]} : k \in 0..n}

\* The sequences over S of length at most n.
SeqsUpTo(S, n) == UNION {[1..k -> S] : k \in 0..n}

\* The orders in which a set can be iterated.
Orders(S) == {s \in [1..Cardinality(S) -> S] : \A i, j \in 1..Cardinality(S) : i # j => s[i] # s[j]}

\* For a map of maps, the ways to give each inner map an iteration order.
RECURSIVE OrderChoices(_)
OrderChoices(table) ==
    IF DOMAIN table = {} THEN {EmptyMap}
    ELSE LET e    == CHOOSE x \in DOMAIN table : TRUE
             rest == [x \in DOMAIN table \ {e} |-> table[x]]
         IN  {Insert(f, e, o) : f \in OrderChoices(rest), o \in Orders(DOMAIN table[e])}

-----------------------------------------------------------------------------
(* Age resolver: specification SpecAge applies find_best_age_match to every     *)
(* athlete age of AthleteAges and every list of at most MaxAges distinct labels *)
(* of AgeLabels, in every order.                                                *)

MaxAges == 3

AgeLabels == {<<"1", "1">>, <<"1", "3">>, <<"1", "5">>, <<"+", "1", "3">>, <<"O", "P">>}

AthleteAges == {<<"1", "0">>, <<"1", "2">>, <<"1", "3">>, <<"1", "4">>, <<"2", "0">>,
                <<"O", "P">>, <<>>}

\* The parts of the state a specification does not use.
MainIdle ==
    /\ standards_exists = FALSE /\ std_workbook = None /\ data_exists = FALSE
    /\ dir_entries = <<>> /\ meet_files = <<>> /\ file_idx = 0 /\ error_log = <<>>
    /\ output = None /\ writes = 0

TableIdle ==
    /\ standards = EmptyMap /\ event_orders = EmptyMap
    /\ iter_events = EmptyMap /\ iter_ages = EmptyMap

AggregateIdle ==
    /\ all_results = <<>> /\ qualifier_counts = EmptyMap
    /\ unique_qualifiers = EmptyMap /\ total_athletes = EmptyMap

AgeIdle == athlete_age = <<>> /\ available_ages = <<>> /\ matched = None

InitAge ==
    /\ pc = "call"
    /\ athlete_age \in AthleteAges
    /\ available_ages \in InjSeqs(AgeLabels, MaxAges)
    /\ matched = None
    /\ MainIdle /\ TableIdle /\ AggregateIdle

CallFindBestAgeMatch ==
    /\ pc = "call"
    /\ matched' = find_best_age_match(athlete_age, available_ages)
    /\ pc' = "returned"
    /\ UNCHANGED <<standards_exists, std_workbook, data_exists, dir_entries, standards,
                   event_orders, iter_events, iter_ages, meet_files, file_idx,
                   all_results, error_log, qualifier_counts, unique_qualifiers,
                   total_athletes, output, writes, athlete_age, available_ages>>

NextAge == CallFindBestAgeMatch

SpecAge == InitAge /\ [][NextAge]_vars

AgeVal(label) == ParseI32(label).some

Candidates == {l \in Range(available_ages) : IsSome(ParseI32(l))}

\* C4: find_best_age_match returns none exactly when athlete_age is not an
\* integer or no available label parses as one; otherwise it returns a label of
\* available_ages: one numerically equal to athlete_age if there is one, else the
\* minimum if athlete_age is below every candidate, else the maximum if it is
\* above every candidate, else the nearest candidate, the lower one on a tie.
C4_BestAgeMatch ==
    pc = "returned" =>
      LET a == ParseI32(athlete_age)
      IN  /\ (matched = None) <=> (~IsSome(a) \/ Candidates = {})
          /\ IsSome(matched) =>
               LET r == matched.some
                   n == a.some
               IN  /\ r \in Candidates
                   /\ IF \E l \in Candidates : AgeVal(l) = n
                      THEN AgeVal(r) = n
                      ELSE IF \A l \in Candidates : n < AgeVal(l)
                      THEN \A l \in Candidates : AgeVal(r) <= AgeVal(l)
                      ELSE IF \A l \in Candidates : n > AgeVal(l)
                      THEN \A l \in Candidates : AgeVal(r) >= AgeVal(l)
                      ELSE \A l \in Candidates :
                             \/ Abs(n - AgeVal(r)) < Abs(n - AgeVal(l))
                             \/ /\ Abs(n - AgeVal(r)) = Abs(n - AgeVal(l))
                                /\ AgeVal(r) <= AgeVal(l)

\* An athlete of 12 between the labels 11 and 13, equally near: 11 is returned.
C4_Witness ==
    /\ pc = "returned"
    /\ athlete_age = <<"1", "2">>
    /\ {<<"1", "1">>, <<"1", "3">>} \subseteq Range(available_ages)
    /\ matched = Some(<<"1", "1">>)

-----------------------------------------------------------------------------
(* Standards Table builder: specification SpecStd applies load_time_standards  *)
(* to every workbook whose "Mens" tab has a header of MaxCols age columns and   *)
(* at most MaxRows data rows, with cells drawn from HeaderCells, EventCells and *)
(* TimeCells.  A calamine range is rectangular: every row has the header's      *)
(* width.                                                                       *)

MaxCols == 2
MaxRows == 2

T_Event   == <<"E", "v", "e", "n", "t">>
T_11      == <<"1", "1">>
T_13      == <<"1", "3">>
T_13U     == <<"1", "3", "&", "U">>
T_200Free == <<"2", "0", "0", " ", "F", "r", "e", "e">>
T_200Fr   == <<"2", "0", "0", "F", "r">>
T_100Fly  == <<"1", "0", "0", " ", "F", "l", "y">>
T_100Bu   == <<"1", "0", "0", "B", "u">>
T_205     == <<"2", ":", "0", "5", ".", "0", "0">>
T_nan     == <<"N", "a", "N">>

HeaderCells == {EmptyCell, StringCell(T_11), StringCell(T_13U), IntCell(13)}

EventCells == {StringCell(T_200Free), StringCell(T_200Fr), StringCell(T_100Fly), EmptyCell}

TimeCells == {FloatCell(13000), StringCell(T_205), StringCell(T_nan), EmptyCell}

HeaderRows == {<<StringCell(T_Event)>> \o h : h \in [1..MaxCols -> HeaderCells]}

StdDataRows == {<<e>> \o t : e \in EventCells, t \in [1..MaxCols -> TimeCells]}

StdRanges == {<<h>> \o rows : h \in HeaderRows, rows \in SeqsUpTo(StdDataRows, MaxRows)}

InitStd ==
    /\ pc = "call"
    /\ std_workbook \in {[opens |-> TRUE, Mens |-> Some(r), Womens |-> None] : r \in StdRanges}
    /\ standards_exists = TRUE /\ data_exists = FALSE
    /\ dir_entries = <<>> /\ meet_files = <<>> /\ file_idx = 0 /\ error_log = <<>>
    /\ output = None /\ writes = 0
    /\ TableIdle /\ AggregateIdle /\ AgeIdle

CallLoadTimeStandards ==
    /\ pc = "call"
    /\ LET loaded == load_time_standards(std_workbook)
       IN  /\ standards' = loaded.standards
           /\ event_orders' = loaded.event_orders
    /\ pc' = "returned"
    /\ UNCHANGED <<standards_exists, std_workbook, data_exists, dir_entries, iter_events,
                   iter_ages, meet_files, file_idx, all_results, error_log,
                   qualifier_counts, unique_qualifiers, total_athletes, output, writes,
                   athlete_age, available_ages, matched>>

NextStd == CallLoadTimeStandards

SpecStd == InitStd /\ [][NextStd]_vars

MensRange == std_workbook.Mens.some

\* The header columns (row indices, the event column being 1) whose label
\* normalizes to g.
HeaderColumns(g) ==
    {j \in 2..Len(MensRange[1]) :
        HeaderAgeStr(MensRange[1][j]) # <<>> /\ normalize_age(HeaderAgeStr(MensRange[1][j])) = g}

HeaderLabels ==
    {normalize_age(HeaderAgeStr(MensRange[1][j])) :
        j \in {k \in 2..Len(MensRange[1]) : HeaderAgeStr(MensRange[1][k]) # <<>>}}

\* The data rows (indices into the range) that carry an event, and the last
\* of them for each event: a later row replaces an earlier one of the same event.
EventRowIndices == {i \in 2..Len(MensRange) : IsSome(RowEvent(MensRange[i]))}

LastRowOf(e) ==
    CHOOSE i \in EventRowIndices :
        /\ RowEvent(MensRange[i]).some = e
        /\ \A k \in EventRowIndices : RowEvent(MensRange[k]).some = e => k <= i

\* C9: for every header row and every data row with event e, the time stored
\* under (e, g) is the coerced value of the row's cell in the same column as the
\* header cell whose label normalizes to g, and nothing is stored under (e, g)
\* when that cell is missing or fails to coerce.  (Where several header cells
\* normalize to g, the last that coerces counts.)
C9_ColumnAlignment ==
    pc = "returned" =>
      \A e \in DOMAIN standards[Men] :
        LET row == MensRange[LastRowOf(e)]
        IN  \A g \in HeaderLabels :
              LET cols == {j \in HeaderColumns(g) :
                              j <= Len(row) /\ IsSome(time_to_seconds(row[j]))}
              IN  /\ (g \in DOMAIN standards[Men][e]) <=> (cols # {})
                  /\ cols # {} =>
                       \E j \in cols :
                         /\ \A k \in cols : k <= j
                         /\ standards[Men][e][g] = time_to_seconds(row[j]).some

\* The normalized events of the data rows, in row order.
RECURSIVE RowEvents(_)
RowEvents(rows) ==
    IF rows = <<>> THEN <<>>
    ELSE (IF IsSome(RowEvent(Head(rows))) THEN <<RowEvent(Head(rows)).some>> ELSE <<>>)
         \o RowEvents(Tail(rows))

\* C10: the recorded event sequence lists every event key of the sex's
\* Standards Table exactly once, in the order of first occurrence in the source,
\* for any standards sheet.
C10_EventOrderOnce ==
    pc = "returned" =>
      LET order == event_orders[Men]
          src   == RowEvents(Tail(MensRange))
      IN  /\ Range(order) = DOMAIN standards[Men]
          /\ \A i, j \in 1..Len(order) : i # j => order[i] # order[j]
          /\ \A i, j \in 1..Len(order) :
               i < j =>
                 \E k \in 1..Len(src) :
                   /\ src[k] = order[i]
                   /\ \A l \in 1..k : src[l] # order[j]

-----------------------------------------------------------------------------
(* main: the aggregation stage (count_qualifiers, count_unique_qualifiers and  *)
(* the total_athletes loop), one step of the pipeline.                         *)

MainAggregate ==
    /\ pc = "aggregate"
    /\ qualifier_counts' = count_qualifiers(all_results, standards)
    /\ unique_qualifiers' = count_unique_qualifiers(all_results, standards, iter_ages)
    /\ total_athletes' = count_total_athletes(all_results, standards, iter_events, iter_ages)
    /\ pc' = "write"
    /\ UNCHANGED <<standards_exists, std_workbook, data_exists, dir_entries, standards,
                   event_orders, iter_events, iter_ages, meet_files, file_idx,
                   all_results, error_log, output, writes, athlete_age, available_ages,
                   matched>>

-----------------------------------------------------------------------------
(* Qualifier aggregator: specification SpecAgg runs the aggregation stage on   *)
(* every list of at most MaxResults results of AggResults against every table  *)
(* of AggTables, with every iteration order of the table's maps.               *)

MaxResults == 2

T_M   == <<"M">>
T_12  == <<"1", "2">>
T_P13 == <<"+", "1", "3">>
T_OP  == <<"O", "P">>
T_A   == <<"A", ".", " ", "S", "w", "i", "m", "m", "e", "r">>
T_B   == <<"B">>

\* Times in hundredths of a second: 125.0 s, 130.0 s and 120.0 s.
Fast     == 125 * 100
Standard == 130 * 100
Hard     == 120 * 100

AgeMapA == (T_11 :> Standard) @@ (T_13 :> Hard)
AgeMapB == (T_13 :> Standard) @@ (T_P13 :> Hard)
AgeMapC == (T_OP :> Standard)

\* The Men's tables: 200Fr alone, or 200Fr and 100Bu.
MenTables ==
    {(T_200Fr :> a) : a \in {AgeMapA, AgeMapB, AgeMapC, EmptyMap}}
    \cup {(T_200Fr :> a) @@ (T_100Bu :> b) : a \in {AgeMapA, AgeMapB, AgeMapC},
                                             b \in {AgeMapA, AgeMapC}}

AggResults ==
    [course : {<<"L", "C", "M">>}, sex : {Men}, age : {T_12, T_13, T_OP}, event : {T_200Fr},
     time : {Fast, Standard}, name : {T_A}]
    \cup [course : {<<"L", "C", "M">>}, sex : {Men}, age : {T_12, T_13}, event : {T_100Bu},
          time : {Fast}, name : {T_A}]
    \cup [course : {<<"L", "C", "M">>}, sex : {Men}, age : {T_13}, event : {T_200Fr},
          time : {Fast}, name : {T_B, <<>>}]
    \cup [course : {<<"L", "C", "M">>}, sex : {T_M}, age : {T_13}, event : {T_200Fr},
          time : {Fast}, name : {T_A}]

\* The events of a table in the order of the standards sheet's rows.
RowOrder(table) == SelectSeq(<<T_200Fr, T_100Bu>>, LAMBDA e : e \in DOMAIN table)

InitAgg ==
    /\ pc = "aggregate"
    /\ \E men \in MenTables :
         /\ standards = (Men :> men) @@ (Women :> EmptyMap)
         /\ event_orders = (Men :> RowOrder(men)) @@ (Women :> <<>>)
         /\ \E ev \in Orders(DOMAIN men) :
              iter_events = (Men :> ev) @@ (Women :> <<>>)
         /\ \E ag \in OrderChoices(men) :
              iter_ages = (Men :> ag) @@ (Women :> EmptyMap)
    /\ all_results \in SeqsUpTo(AggResults, MaxResults)
    /\ qualifier_counts = EmptyMap /\ unique_qualifiers = EmptyMap
    /\ total_athletes = EmptyMap
    /\ MainIdle /\ AgeIdle

NextAgg == MainAggregate

SpecAgg == InitAgg /\ [][NextAgg]_vars

Aggregated == pc = "write"

ResultIndices == 1..Len(all_results)

KeyOf(r) == <<r.sex, r.age, r.event>>

\* Result i has a qualifying time under its exact (sex, event, literal age).
HasExactStandard(i) ==
    LET r == all_results[i]
    IN  /\ r.sex \in DOMAIN standards
        /\ r.event \in DOMAIN standards[r.sex]
        /\ r.age \in DOMAIN standards[r.sex][r.event]

ExactQualifiers(key) ==
    {i \in ResultIndices :
        /\ KeyOf(all_results[i]) = key
        /\ HasExactStandard(i)
        /\ all_results[i].time <= standards[key[1]][key[3]][key[2]]}

\* C2: after the exact-match pass each count equals the number of results with
\* that exact (sex, age, event) key whose time is at or below the key's
\* qualifying time; a result adds 1 iff its time <= the standard, and results
\* whose key has no table entry change no count.
C2_ExactMatchCounts ==
    Aggregated =>
      /\ DOMAIN qualifier_counts = {KeyOf(all_results[i]) :
                                      i \in {j \in ResultIndices : ExactQualifiers(KeyOf(all_results[j])) # {}}}
      /\ \A key \in DOMAIN qualifier_counts :
           qualifier_counts[key] = Cardinality(ExactQualifiers(key))

\* Two results are counted under one key, one of them exactly at the standard.
C2_Witness ==
    /\ Aggregated
    /\ \E key \in DOMAIN qualifier_counts : qualifier_counts[key] = 2
    /\ \E i \in ResultIndices :
         HasExactStandard(i) /\ all_results[i].time = standards[Men][all_results[i].event][all_results[i].age]

\* The age label result i resolves to over its sex+event's labels, if any.
ResolvedAge(i) ==
    LET r == all_results[i]
    IN  IF r.sex \in DOMAIN standards /\ r.event \in DOMAIN standards[r.sex]
        THEN find_best_age_match(r.age, iter_ages[r.sex][r.event])
        ELSE None

ResolvedQualifierNames(sex, g) ==
    {all_results[i].name :
        i \in {j \in ResultIndices :
                 /\ all_results[j].name # <<>>
                 /\ all_results[j].sex = sex
                 /\ ResolvedAge(j) = Some(g)
                 /\ all_results[j].time <= standards[sex][all_results[j].event][g]}}

Buckets ==
    {<<all_results[i].sex, ResolvedAge(i).some>> :
        i \in {j \in ResultIndices : IsSome(ResolvedAge(j))}}

\* C3: for every (sex, resolved age) bucket UniqueQualifiers holds exactly the
\* distinct non-empty names of the results whose age resolves to that age and
\* whose time is <= the resolved age's qualifying time; a name qualifying
\* several times in a bucket is held once, an empty name never.
C3_UniqueQualifiers ==
    Aggregated =>
      /\ DOMAIN unique_qualifiers = {b \in Buckets : ResolvedQualifierNames(b[1], b[2]) # {}}
      /\ \A b \in DOMAIN unique_qualifiers :
           unique_qualifiers[b] = ResolvedQualifierNames(b[1], b[2])

\* One athlete qualifies in two events, both times at an age (12) resolved to a
\* label (11) that is not the literal age, and is held once in that bucket.
C3_Witness ==
    /\ Aggregated
    /\ Len(all_results) = 2
    /\ all_results[1].event # all_results[2].event
    /\ all_results[1].name = T_A /\ all_results[2].name = T_A
    /\ all_results[1].age = T_12 /\ all_results[2].age = T_12
    /\ <<Men, T_11>> \in DOMAIN unique_qualifiers
    /\ unique_qualifiers[<<Men, T_11>>] = {T_A}
    /\ ResolvedAge(1) = Some(T_11) /\ ResolvedAge(2) = Some(T_11)
    /\ all_results[1].time <= standards[Men][all_results[1].event][T_11]
    /\ all_results[2].time <= standards[Men][all_results[2].event][T_11]

Permuted(p) == [i \in ResultIndices |-> all_results[p[i]]]

\* C8: for a fixed Standards Table, QualifierCounts, UniqueQualifiers and
\* TotalAthletes are the same for every permutation of the list of results.
C8_OrderInsensitive ==
    Aggregated =>
      \A p \in Orders(ResultIndices) :
        /\ count_qualifiers(Permuted(p), standards) = qualifier_counts
        /\ count_unique_qualifiers(Permuted(p), standards, iter_ages) = unique_qualifiers
        /\ count_total_athletes(Permuted(p), standards, iter_events, iter_ages)
             = total_athletes

\* Two different results put two different names into one bucket of
\* UniqueQualifiers and of TotalAthletes, and both are counted under one key.
C8_Witness ==
    /\ Aggregated
    /\ Len(all_results) >= 2
    /\ all_results[1] # all_results[2]
    /\ \E b \in DOMAIN unique_qualifiers : Cardinality(unique_qualifiers[b]) = 2
    /\ \E b \in DOMAIN total_athletes : Cardinality(total_athletes[b]) = 2
    /\ \E key \in DOMAIN qualifier_counts : qualifier_counts[key] = 2

-----------------------------------------------------------------------------
(* Report builder (main, the loop over the two sheets) *)

UnparsedSortKey == 999

\* The labels of order, each with the key of sort_by_key: its number, or
\* UnparsedSortKey when it does not parse.
RECURSIVE AgeSortKeys(_)
AgeSortKeys(order) ==
    IF order = <<>> THEN <<>>
    ELSE LET p == ParseI32(Head(order))
         IN  <<[num |-> IF IsSome(p) THEN p.some ELSE UnparsedSortKey, label |-> Head(order)]>>
             \o AgeSortKeys(Tail(order))

\* age_groups_vec: the set's labels in iteration order, then sort_by_key.
SortedAgeGroups(order) ==
    LET sorted == SortByNum(AgeSortKeys(order))
    IN  [i \in 1..Len(sorted) |-> sorted[i].label]

AgeGroupSet(gender_standards) == UNION {DOMAIN gender_standards[e] : e \in DOMAIN gender_standards}

CountAt(counts, key) == IF key \in DOMAIN counts THEN counts[key] ELSE 0

SizeAt(sets, key) == IF key \in DOMAIN sets THEN Cardinality(sets[key]) ELSE 0

\* One sheet of the report: the header, one row per entry of event_order, the
\* "Total Unique Athletes" row and the "Unique Qualifiers" row.
BuildSheet(gender, age_groups_vec) ==
    [header |-> age_groups_vec,
     rows   |-> [i \in 1..Len(event_orders[gender]) |->
                   [event  |-> event_orders[gender][i],
                    counts |-> [c \in 1..Len(age_groups_vec) |->
                                  CountAt(qualifier_counts,
                                          <<gender, age_groups_vec[c], event_orders[gender][i]>>)]]],
     total  |-> [c \in 1..Len(age_groups_vec) |->
                   SizeAt(total_athletes, <<gender, age_groups_vec[c]>>)],
     unique |-> [c \in 1..Len(age_groups_vec) |->
                   SizeAt(unique_qualifiers, <<gender, age_groups_vec[c]>>)]]

-----------------------------------------------------------------------------
(* main: specification Spec runs the whole pipeline on every combination of a  *)
(* standards file (absent, unopenable, or one of two workbooks), a data folder *)
(* (absent or present) and a directory listing of at most MaxFiles entries of  *)
(* DirEntries.                                                                 *)

MaxFiles == 2

T_Prefix == <<"C", "A", "N", "-", "M", "B", "S", "K", "_">>
N_Men13 ==
    <<"C", "A", "N", "-", "M", "B", "S", "K", "_", "X", "_", "L", "C", "M", "_", "M",
      "e", "n", "_", "0", "0", "-", "1", "3", ".", "x", "l", "s", "x">>
N_M13 ==
    <<"C", "A", "N", "-", "M", "B", "S", "K", "_", "X", "_", "L", "C", "M", "_", "M",
      "_", "0", "0", "-", "1", "3", ".", "x", "l", "s", "x">>
N_Short == <<"C", "A", "N", "-", "M", "B", "S", "K", "_", "X", ".", "x", "l", "s", "x">>
N_BadAge ==
    <<"C", "A", "N", "-", "M", "B", "S", "K", "_", "X", "_", "L", "C", "M", "_", "M",
      "e", "n", "_", "1", "3", ".", "x", "l", "s", "x">>
N_Men12 ==
    <<"C", "A", "N", "-", "M", "B", "S", "K", "_", "X", "_", "L", "C", "M", "_", "M",
      "e", "n", "_", "0", "0", "-", "1", "2", ".", "x", "l", "s", "x">>
N_Men13xls ==
    <<"C", "A", "N", "-", "M", "B", "S", "K", "_", "Y", "_", "S", "C", "M", "_", "M",
      "e", "n", "_", "0", "0", "-", "1", "3", ".", "x", "l", "s">>
N_Notes == <<"n", "o", "t", "e", "s", ".", "t", "x", "t">>
T_215 == <<"2", ":", "1", "5", ".", "0", "0">>

\* A meet sheet's row: the name in column NameColumn, the time in column
\* TimeColumn, the other cells empty.
MeetRow(name_cell, time_cell) ==
    [c \in 1..(TimeColumn + 1) |->
        IF c = NameColumn + 1 THEN name_cell
        ELSE IF c = TimeColumn + 1 THEN time_cell ELSE EmptyCell]

Sheet200Free ==
    [name |-> T_200Free, range |-> Some(<<MeetRow(StringCell(T_A), StringCell(T_205))>>)]

\* A sheet of three rows: one slower than the standard, one with time 0, one
\* with a blank name.
SheetMixed ==
    [name  |-> T_200Fr,
     range |-> Some(<<MeetRow(StringCell(T_B), StringCell(T_215)),
                      MeetRow(StringCell(T_A), IntCell(0)),
                      MeetRow(EmptyCell, FloatCell(Fast))>>)]

SheetUnreadable == [name |-> T_100Fly, range |-> None]

SheetBlankName == [name |-> <<" ", " ">>, range |-> Some(<<MeetRow(StringCell(T_A), FloatCell(Fast))>>)]

SheetNarrow == [name |-> T_100Fly, range |-> Some(<<<<StringCell(T_A), FloatCell(Fast)>>>>)]

FileMen13 == [name |-> N_Men13, opens |-> TRUE, sheets |-> <<Sheet200Free>>]

FileM13 == [name |-> N_M13, opens |-> TRUE, sheets |-> <<Sheet200Free>>]

FileShortName == [name |-> N_Short, opens |-> TRUE, sheets |-> <<Sheet200Free>>]

FileBadAgeRange == [name |-> N_BadAge, opens |-> TRUE, sheets |-> <<Sheet200Free>>]

FileUnopenable == [name |-> N_Men12, opens |-> FALSE, sheets |-> <<>>]

FileUnreadableSheet ==
    [name |-> N_Men13xls, opens |-> TRUE,
     sheets |-> <<SheetUnreadable, SheetMixed, SheetBlankName, SheetNarrow>>]

FileNotes == [name |-> N_Notes, opens |-> TRUE, sheets |-> <<>>]

DirEntries ==
    {FileMen13, FileM13, FileShortName, FileBadAgeRange, FileUnopenable,
     FileUnreadableSheet, FileNotes}

\* Men / 200Fr / age 13 = 130.0 s, and a Womens tab with the same header and no rows.
WorkbookOne ==
    [opens  |-> TRUE,
     Mens   |-> Some(<<<<StringCell(T_Event), StringCell(T_13)>>,
                       <<StringCell(T_200Fr), FloatCell(Standard)>>>>),
     Womens |-> Some(<<<<StringCell(T_Event), StringCell(T_13)>>>>)]

\* Two events and two age groups for Men; no Womens tab.
WorkbookTwo ==
    [opens  |-> TRUE,
     Mens   |-> Some(<<<<StringCell(T_Event), StringCell(T_11), StringCell(T_13U)>>,
                       <<StringCell(T_200Free), StringCell(T_215), DateTimeCell(13, 8640)>>,
                       <<StringCell(T_100Fly), EmptyCell, FloatCell(Hard)>>>>),
     Womens |-> None]

WorkbookUnopenable == [opens |-> FALSE, Mens |-> None, Womens |-> None]

StdWorkbooks == {WorkbookOne, WorkbookTwo, WorkbookUnopenable}

Init ==
    /\ pc = "start"
    /\ standards_exists \in BOOLEAN
    /\ std_workbook \in StdWorkbooks
    /\ data_exists \in BOOLEAN
    /\ dir_entries \in SeqsUpTo(DirEntries, MaxFiles)
    /\ meet_files = <<>> /\ file_idx = 0 /\ error_log = <<>>
    /\ output = None /\ writes = 0
    /\ TableIdle /\ AggregateIdle /\ AgeIdle

\* if !standards_path.exists() { return Err(..) }
CheckStandardsFile ==
    /\ pc = "start"
    /\ pc' = IF standards_exists THEN "load" ELSE "error"
    /\ UNCHANGED <<standards_exists, std_workbook, data_exists, dir_entries, standards,
                   event_orders, iter_events, iter_ages, meet_files, file_idx,
                   all_results, error_log, qualifier_counts, unique_qualifiers,
                   total_athletes, output, writes, athlete_age, available_ages, matched>>

\* let (standards, event_orders) = load_time_standards(..)?; the iteration
\* orders of the maps just built are fixed here, arbitrarily.
LoadStandards ==
    /\ pc = "load"
    /\ LET loaded == load_time_standards(std_workbook)
       IN  IF ~loaded.ok
           THEN /\ pc' = "error"
                /\ UNCHANGED <<standards, event_orders, iter_events, iter_ages>>
           ELSE /\ pc' = "check_data"
                /\ standards' = loaded.standards
                /\ event_orders' = loaded.event_orders
                /\ \E evm \in Orders(DOMAIN loaded.standards[Men]),
                      evw \in Orders(DOMAIN loaded.standards[Women]) :
                     iter_events' = (Men :> evm) @@ (Women :> evw)
                /\ \E agm \in OrderChoices(loaded.standards[Men]),
                      agw \in OrderChoices(loaded.standards[Women]) :
                     iter_ages' = (Men :> agm) @@ (Women :> agw)
    /\ UNCHANGED <<standards_exists, std_workbook, data_exists, dir_entries, meet_files,
                   file_idx, all_results, error_log, qualifier_counts, unique_qualifiers,
                   total_athletes, output, writes, athlete_age, available_ages, matched>>

\* if !Path::new(DATA_FOLDER).exists() { return Err(..) }
CheckDataFolder ==
    /\ pc = "check_data"
    /\ pc' = IF data_exists THEN "discover" ELSE "error"
    /\ UNCHANGED <<standards_exists, std_workbook, data_exists, dir_entries, standards,
                   event_orders, iter_events, iter_ages, meet_files, file_idx,
                   all_results, error_log, qualifier_counts, unique_qualifiers,
                   total_athletes, output, writes, athlete_age, available_ages, matched>>

IsMeetFile(entry) ==
    StartsWith(entry.name, T_Prefix) /\ (EndsWith(entry.name, Xlsx) \/ EndsWith(entry.name, Xls))

MatchingFiles(entries) == SelectSeq(entries, IsMeetFile)

DiscoverNoEmptyCheck ==
    /\ pc = "discover"
    /\ meet_files' = MatchingFiles(dir_entries)
    /\ pc' = IF meet_files' = <<>> THEN "aggregate" ELSE "parse"
    /\ UNCHANGED <<standards_exists, std_workbook, data_exists, dir_entries, standards,
                   event_orders, iter_events, iter_ages, file_idx, all_results, error_log,
                   qualifier_counts, unique_qualifiers, total_athletes, output, writes,
                   athlete_age, available_ages, matched>>

\* The read_dir loop, then: if meet_files.is_empty() { return Err(..) }
DiscoverMeetFiles ==
    /\ pc = "discover"
    /\ meet_files' = MatchingFiles(dir_entries)
    /\ pc' = IF meet_files' = <<>> THEN "error" ELSE "parse"
    /\ UNCHANGED <<standards_exists, std_workbook, data_exists, dir_entries, standards,
                   event_orders, iter_events, iter_ages, file_idx, all_results, error_log,
                   qualifier_counts, unique_qualifiers, total_athletes, output, writes,
                   athlete_age, available_ages, matched>>

ParseNextFileAbort ==
    /\ pc = "parse"
    /\ file_idx < Len(meet_files)
    /\ LET parsed == parse_meet_file(meet_files[file_idx + 1])
       IN  IF parsed.ok
           THEN /\ all_results' = all_results \o parsed.results
                /\ pc' = IF file_idx + 1 = Len(meet_files) THEN "aggregate" ELSE "parse"
                /\ UNCHANGED error_log
           ELSE /\ error_log' = Append(error_log, [file |-> file_idx + 1, error |-> parsed.err])
                /\ pc' = "error"
                /\ UNCHANGED all_results
    /\ file_idx' = file_idx + 1
    /\ UNCHANGED <<standards_exists, std_workbook, data_exists, dir_entries, standards,
                   event_orders, iter_events, iter_ages, meet_files, qualifier_counts,
                   unique_qualifiers, total_athletes, output, writes, athlete_age,
                   available_ages, matched>>

ParseNextFileStopEarly ==
    /\ pc = "parse"
    /\ file_idx < Len(meet_files)
    /\ LET parsed == parse_meet_file(meet_files[file_idx + 1])
       IN  IF parsed.ok
           THEN /\ all_results' = all_results \o parsed.results
                /\ UNCHANGED error_log
           ELSE /\ error_log' = Append(error_log, [file |-> file_idx + 1, error |-> parsed.err])
                /\ UNCHANGED all_results
    /\ file_idx' = file_idx + 1
    /\ pc' = "aggregate"
    /\ UNCHANGED <<standards_exists, std_workbook, data_exists, dir_entries, standards,
                   event_orders, iter_events, iter_ages, meet_files, qualifier_counts,
                   unique_qualifiers, total_athletes, output, writes, athlete_age,
                   available_ages, matched>>

\* One turn of "for file_path in &meet_files": Ok extends all_results, Err is
\* printed; after the last file the loop is left.
ParseNextFile ==
    /\ pc = "parse"
    /\ file_idx < Len(meet_files)
    /\ LET parsed == parse_meet_file(meet_files[file_idx + 1])
       IN  IF parsed.ok
           THEN /\ all_results' = all_results \o parsed.results
                /\ UNCHANGED error_log
           ELSE /\ error_log' = Append(error_log, [file |-> file_idx + 1, error |-> parsed.err])
                /\ UNCHANGED all_results
    /\ file_idx' = file_idx + 1
    /\ pc' = IF file_idx + 1 = Len(meet_files) THEN "aggregate" ELSE "parse"
    /\ UNCHANGED <<standards_exists, std_workbook, data_exists, dir_entries, standards,
                   event_orders, iter_events, iter_ages, meet_files, qualifier_counts,
                   unique_qualifiers, total_athletes, output, writes, athlete_age,
                   available_ages, matched>>

\* The loop over the two sheets, then workbook.save(OUTPUT_FILE).  The order in
\* which each age_groups HashSet is iterated is arbitrary.
WriteReport ==
    /\ pc = "write"
    /\ \E om \in Orders(AgeGroupSet(standards[Men])), ow \in Orders(AgeGroupSet(standards[Women])) :
         output' = Some([Mens   |-> BuildSheet(Men, SortedAgeGroups(om)),
                         Womens |-> BuildSheet(Women, SortedAgeGroups(ow))])
    /\ writes' = writes + 1
    /\ pc' = "done"
    /\ UNCHANGED <<standards_exists, std_workbook, data_exists, dir_entries, standards,
                   event_orders, iter_events, iter_ages, meet_files, file_idx,
                   all_results, error_log, qualifier_counts, unique_qualifiers,
                   total_athletes, athlete_age, available_ages, matched>>

Next ==
    \/ CheckStandardsFile
    \/ LoadStandards
    \/ CheckDataFolder
    \/ DiscoverMeetFiles
    \/ ParseNextFile
    \/ MainAggregate
    \/ WriteReport

Spec == Init /\ [][Next]_vars

-----------------------------------------------------------------------------
(* Properties of the pipeline *)

\* The cells of a report sheet in the row of an event, under the column of an age.
EventCellsAt(sheet, event, age) ==
    {sheet.rows[i].counts[c] :
        i \in {k \in 1..Len(sheet.rows) : sheet.rows[k].event = event},
        c \in {k \in 1..Len(sheet.header) : sheet.header[k] = age}}

UniqueCellsAt(sheet, age) ==
    {sheet.unique[c] : c \in {k \in 1..Len(sheet.header) : sheet.header[k] = age}}

\* C1: with a standards table defining Men / 200Fr / age 13 = 130.0 s and one
\* meet file whose name gives course LCM, sex token M and age range 00-13, with a
\* sheet "200 Free" holding one row of time 125.0 s and name "A. Swimmer", the
\* report's Men sheet has 1 in the "200Fr" row under "13" and 1 in the "Unique
\* Qualifiers" row under "13".
C1_EndToEnd ==
    (pc = "done" /\ std_workbook = WorkbookOne /\ dir_entries = <<FileM13>>) =>
        /\ EventCellsAt(output.some.Mens, T_200Fr, T_13) = {1}
        /\ UniqueCellsAt(output.some.Mens, T_13) = {1}

\* The loaded table defines Men / 200Fr / age 13 = 130.0 s.
DefinesMen200Fr13 ==
    /\ Men \in DOMAIN standards
    /\ T_200Fr \in DOMAIN standards[Men]
    /\ T_13 \in DOMAIN standards[Men][T_200Fr]
    /\ standards[Men][T_200Fr][T_13] = Standard

\* The same scenario with the sex token Men in the file name, the key the
\* Standards Table uses: both cells are 1.
EndToEndWithTokenMen ==
    (pc = "done" /\ DefinesMen200Fr13 /\ meet_files = <<FileMen13>>) =>
        /\ EventCellsAt(output.some.Mens, T_200Fr, T_13) = {1}
        /\ UniqueCellsAt(output.some.Mens, T_13) = {1}

ConfigurationFault ==
    ~standards_exists \/ ~data_exists \/ MatchingFiles(dir_entries) = <<>>

\* C5: if the standards file is absent, the data directory is absent, or no
\* matching meet file is found, the run never gets past discovery, so it can end
\* only in the error state, and the output report is never written.
C5_ConfigFaultsFatal ==
    ConfigurationFault =>
        /\ pc \in {"start", "load", "check_data", "discover", "error"}
        /\ output = None /\ writes = 0

\* The run has ended in error although the standards loaded and the data
\* directory exists and has entries: none of them is a meet file.
C5_Witness ==
    /\ pc = "error"
    /\ standards_exists /\ data_exists /\ dir_entries # <<>>
    /\ DOMAIN standards = {Men, Women}
    /\ MatchingFiles(dir_entries) = <<>>
    /\ output = None

MalformedFilename(file) ==
    LET parts == Split(Replace(Replace(file.name, Xlsx, <<>>), Xls, <<>>), "_")
    IN  Len(parts) < 5 \/ Len(Split(parts[5], "-")) # 2

HasUnreadableSheet(file) == \E i \in 1..Len(file.sheets) : ~IsSome(file.sheets[i].range)

ReadableSheet(sheet) == IsSome(sheet.range)

\* The results of the files, in order, those of the set skipped left out.
RECURSIVE ConcatResults(_, _)
ConcatResults(files, skipped) ==
    IF files = <<>> THEN <<>>
    ELSE (IF Head(files) \in skipped THEN <<>> ELSE parse_meet_file(Head(files)).results)
         \o ConcatResults(Tail(files), skipped)

LoggedFiles == {error_log[i].file : i \in 1..Len(error_log)}

ParsingOver == pc \in {"aggregate", "write", "done"}

\* A file with a malformed name, a workbook that does not open, or an
\* unreadable sheet.
FaultyFile(file) ==
    MalformedFilename(file) \/ ~file.opens \/ HasUnreadableSheet(file)

\* C6 as stated: a meet file with a malformed filename or an unreadable sheet
\* is skipped, none of its rows reaching the merged results, and its failure is
\* logged; every other file is parsed with its results unchanged, and the run
\* goes on to aggregation and the report.
C6_FileFaultsSkipFile ==
    /\ pc = "error" => meet_files = <<>>
    /\ ParsingOver =>
         /\ all_results = ConcatResults(meet_files, {f \in Range(meet_files) : FaultyFile(f)})
         /\ LoggedFiles = {i \in 1..Len(meet_files) : FaultyFile(meet_files[i])}

\* A file with a malformed name or a workbook that does not open.
FileFault(file) == MalformedFilename(file) \/ ~file.opens

\* C6 as amended: a meet file with a malformed filename or a workbook that does
\* not open is skipped and its failure logged once; an unreadable sheet makes
\* only that sheet contribute nothing, as if it were absent, and is not logged;
\* every file without a file fault has all its results merged, in order; and no
\* run aborts once a meet file has been discovered.
C6_FileFaultsRecovered ==
    /\ pc = "error" => meet_files = <<>>
    /\ pc = "parse" => file_idx < Len(meet_files)
    /\ \A i \in 1..Len(meet_files) :
         ~FileFault(meet_files[i]) =>
            parse_meet_file(meet_files[i]).results =
              parse_meet_file([meet_files[i] EXCEPT
                                 !.sheets = SelectSeq(@, ReadableSheet)]).results
    /\ ParsingOver =>
         /\ all_results = ConcatResults(meet_files, {f \in Range(meet_files) : FileFault(f)})
         /\ LoggedFiles = {i \in 1..Len(meet_files) : FileFault(meet_files[i])}
         /\ Len(error_log) = Cardinality(LoggedFiles)

\* The report has been written after a run over a file with a short name and a
\* file with an unreadable sheet: the first is logged, the second is not and
\* its readable sheets' rows are in the results.
C6_Witness ==
    /\ pc = "done" /\ writes = 1
    /\ meet_files = <<FileShortName, FileUnreadableSheet>>
    /\ LoggedFiles = {1}
    /\ all_results # <<>>

StandardsLoaded == DOMAIN standards = {Men, Women}

\* C7: the Standards Table is loaded before any meet file is parsed, every
\* discovered file is parsed or skipped before aggregation begins, aggregation
\* is complete before the report is written, the report is written at most
\* once, as the last step, and a run that aborts leaves no output.
C7_StageOrder ==
    /\ (file_idx > 0 \/ pc = "parse") => StandardsLoaded
    /\ file_idx <= Len(meet_files)
    /\ pc \in {"aggregate", "write", "done"} =>
         /\ StandardsLoaded
         /\ meet_files # <<>> /\ file_idx = Len(meet_files)
    /\ pc \in {"start", "load", "check_data", "discover", "parse", "aggregate", "error"} =>
         /\ qualifier_counts = EmptyMap /\ unique_qualifiers = EmptyMap
         /\ total_athletes = EmptyMap
    /\ pc \in {"write", "done"} =>
         /\ qualifier_counts = count_qualifiers(all_results, standards)
         /\ unique_qualifiers = count_unique_qualifiers(all_results, standards, iter_ages)
         /\ total_athletes =
              count_total_athletes(all_results, standards, iter_events, iter_ages)
    /\ writes <= 1
    /\ (writes = 1) <=> (pc = "done")
    /\ (output # None) <=> (pc = "done")
    /\ pc = "error" => output = None /\ writes = 0

\* The report has been written once, after two files were parsed and a
\* qualifier was counted.
C7_Witness ==
    /\ pc = "done" /\ writes = 1 /\ output # None
    /\ Len(meet_files) = 2 /\ file_idx = 2
    /\ qualifier_counts # EmptyMap

-----------------------------------------------------------------------------
(* Properties relating the aggregates (checked under SpecAgg) *)

SetAt(sets, key) == IF key \in DOMAIN sets THEN sets[key] ELSE {}

\* C11: for every (sex, age-group) bucket, after aggregating any list of results
\* against any Standards Table, the UniqueQualifiers set is a subset of the
\* TotalAthletes set, so "Unique Qualifiers" never exceeds "Total Unique
\* Athletes" in a column, whichever event the TotalAthletes pass takes its age
\* labels from.
C11_UniqueWithinTotal ==
    Aggregated =>
      \A b \in DOMAIN unique_qualifiers :
        /\ unique_qualifiers[b] \subseteq SetAt(total_athletes, b)
        /\ Cardinality(unique_qualifiers[b]) <= SizeAt(total_athletes, b)

\* C12: every result with a non-empty name that the exact-match pass counts
\* under (sex, literal age, event) has its name in UniqueQualifiers under (sex,
\* that same literal age label), for every age label the table can hold.
C12_ExactImpliesUnique ==
    Aggregated =>
      \A i \in ResultIndices :
        (/\ all_results[i].name # <<>>
         /\ i \in ExactQualifiers(KeyOf(all_results[i]))
         /\ KeyOf(all_results[i]) \in DOMAIN qualifier_counts) =>
            all_results[i].name
              \in SetAt(unique_qualifiers, <<all_results[i].sex, all_results[i].age>>)

====
